---- MODULE Spec2Model ----
(***************************************************************************)
(* Model of the print-job queue of print_service (src/services/queue.py):  *)
(* the PrintQueue store with its JSON persistence file, the API calls that *)
(* reach it (src/api/routes.py), the background loop _process_queue with   *)
(* PrinterService.print_file (src/services/printer.py), and the process    *)
(* being killed and started again on the same persistence file.            *)
(***************************************************************************)
EXTENDS Integers, Sequences, FiniteSets, TLC

\* ---------------------------------------------------------------- bounds
\* number of distinct uuid4 values add_job can draw
MaxJobs == 2
\* datetime.now() takes the values 0..MaxClock
MaxClock == 1
\* how often the process is killed and started again
MaxCrashes == 1
\* PrintQueue(max_retries = N) is constructed with N in 0..MaxRetriesArg
MaxRetriesArg == 2

\* threads started by start_processing in one run
MaxThreads == 2

\* stop_processing: self.processing_thread.join(timeout=5)
JoinTimeout == 5

\* ------------------------------------------------------ program constants
\* PrintJob.__init__: self.max_retries = 3
DefaultMaxRetries == 3

\* PrintRequest.copies: Field(default=1, ge=1, le=100)
MinCopies == 1
MaxCopies == 100

JobIds == 1..MaxJobs

\* JobStatus members, and the string value of each member
JobStatus == {"PENDING", "PROCESSING", "COMPLETED", "FAILED", "CANCELLED"}

StatusValue(s) ==
    CASE s = "PENDING" -> "pending"
      [] s = "PROCESSING" -> "processing"
      [] s = "COMPLETED" -> "completed"
      [] s = "FAILED" -> "failed"
      [] s = "CANCELLED" -> "cancelled"

\* JobStatus(value): the member whose value is v
StatusOfValue(v) == CHOOSE s \in JobStatus : StatusValue(s) = v

\* Python's None for error_message; a message is a non-empty tuple, so that
\* "if error_message:" is msg # None
None == <<>>

\* the exceptions print_file can raise (printer not found, driver error)
Errors == {"ValueError"}

\* line 265: the f-string "attempt {retry_count}/{max_retries}: {e}"
RetryMessage(rc, mx, e) == <<"attempt", rc, mx, e>>

\* the value of exc while no exception is being handled
NoException == "NoException"

\* line 273: the f-string "retries exceeded: {e}"
ExceededMessage(e) == <<"retries exceeded", e>>

\* the arguments routes.print_file passes to add_job
Requests ==
    { [file_path |-> "a.pdf", file_format |-> "pdf", printer_name |-> "P1",
       options |-> "None", copies |-> 1],
      [file_path |-> "b.png", file_format |-> "image", printer_name |-> "P2",
       options |-> "{duplex}", copies |-> 2] }

\* arguments the route never passes but add_job can be called with: a copy
\* count below or above the range of PrintRequest, an empty printer name
InvalidRequests ==
    { [file_path |-> "a.pdf", file_format |-> "pdf", printer_name |-> "P1",
       options |-> "None", copies |-> MinCopies - 1],
      [file_path |-> "a.pdf", file_format |-> "pdf", printer_name |-> "P1",
       options |-> "None", copies |-> MaxCopies + 1],
      [file_path |-> "a.pdf", file_format |-> "pdf", printer_name |-> "",
       options |-> "None", copies |-> 1] }

\* what the route lets through: PrintRequest's bounds on copies (validators
\* line 55) and "if not printer_name" (routes line 113)
ValidArguments(r) ==
    /\ r.copies \in MinCopies..MaxCopies
    /\ r.printer_name # ""

\* PrintJob.__init__: "options or {}"
OptionsOrEmpty(o) == IF o = "None" THEN "{}" ELSE o

\* mutant of PrintJob: a new job starts with retry_count 1
PrintJobRetryOne(job_id, file_path, file_format, printer_name, options, copies, now) ==
    [job_id |-> job_id, file_path |-> file_path, file_format |-> file_format,
     printer_name |-> printer_name, options |-> options,
     copies |-> copies, status |-> "PENDING", created_at |-> now,
     updated_at |-> now, error_message |-> <<>>, retry_count |-> 1,
     max_retries |-> 3]

\* PrintJob.__init__ ; now is the reading of datetime.now() (the two readings
\* of lines 39 and 40 are taken as one)
PrintJob(job_id, file_path, file_format, printer_name, options, copies, now) ==
    [job_id |-> job_id, file_path |-> file_path, file_format |-> file_format,
     printer_name |-> printer_name, options |-> OptionsOrEmpty(options),
     copies |-> copies, status |-> "PENDING", created_at |-> now,
     updated_at |-> now, error_message |-> None, retry_count |-> 0,
     max_retries |-> DefaultMaxRetries]

\* PrintJob.to_dict: the record written to the file (no max_retries key)
ToDict(job) ==
    [job_id |-> job.job_id, file_path |-> job.file_path,
     file_format |-> job.file_format, printer_name |-> job.printer_name,
     options |-> job.options, copies |-> job.copies,
     status |-> StatusValue(job.status), created_at |-> job.created_at,
     updated_at |-> job.updated_at, error_message |-> job.error_message,
     retry_count |-> job.retry_count]

\* mutant of FromDict: retry_count is not read back
FromDictNoRetryCount(data, now) ==
    [ PrintJob(data.job_id, data.file_path, data.file_format,
               data.printer_name, data.options, data.copies, now)
      EXCEPT !.status = StatusOfValue(data.status),
             !.created_at = data.created_at,
             !.updated_at = data.updated_at,
             !.error_message = data.error_message ]

\* PrintJob.from_dict; now is the clock reading of the constructor call, which
\* the stored timestamps then overwrite
FromDict(data, now) ==
    [ PrintJob(data.job_id, data.file_path, data.file_format,
               data.printer_name, data.options, data.copies, now)
      EXCEPT !.status = StatusOfValue(data.status),
             !.created_at = data.created_at,
             !.updated_at = data.updated_at,
             !.error_message = data.error_message,
             !.retry_count = data.retry_count ]

VARIABLES
    jobs,          \* self.jobs: the dict in insertion order, a sequence of PrintJob
    file,          \* the persistence file: [exists, jobs: sequence of dicts]
    max_retries,   \* self.max_retries
    is_running,    \* self.is_running
    pc,            \* where the thread running _process_queue stands
    pending_jobs,  \* its local pending_jobs: job ids of the snapshot, in order
    idx,           \* position of the for loop in pending_jobs
    copy_i,        \* print_file: copies sent so far in this call
    exc,           \* the exception caught at line 255, NoException if none
    clock,         \* datetime.now()
    crashes,       \* how often the process was killed and started again
    ret,           \* the value the API call of the last step returned
    cancelled,     \* history: ids for which cancel_job returned True in this process
    hist,          \* history: per job, where this process has it from ("add",
                   \* "load", or "reset": loaded and reset from PROCESSING) and
                   \* the attempts this process made
    image_size,    \* print_image: image.size of the opened file, <<width, height>>
    printable_area, \* print_image: <<HORZRES, VERTRES>> of the printer's device context
    rect,          \* print_image: the rectangle handed to dib.draw, NoRect before
    lock,          \* self.lock: Free, or the thread inside a with self.lock block
    other,         \* a second thread running _process_queue that is not scheduled
                   \* at the moment: its tid and locals, or NoThread
    tid,           \* the thread that pc, pending_jobs, idx, copy_i, exc belong to
    processing_thread, \* self.processing_thread: the thread started last, 0 for None
    joining,       \* a caller of stop_processing is inside join(timeout=5)
    waited,        \* the seconds it has waited there
    disk,          \* whether writes of the persistence file may fail
    sends          \* history: per job and attempt, the sends that returned; NotCounted
                   \* where they are not counted

vars == <<jobs, file, max_retries, is_running, pc, pending_jobs, idx, copy_i,
          exc, clock, crashes, ret, cancelled, hist, image_size, printable_area,
          rect, lock, other, tid, processing_thread, joining, waited, disk, sends>>

\* the disk and the count of sends
env_vars == <<disk, sends>>

\* what start_processing, stop_processing and a second loop thread change
thread_vars == <<other, tid, processing_thread, joining, waited>>

\* the locals of print_image; the queue's actions take a send as a whole
\* (it returns or raises) and leave them alone
printer_vars == <<image_size, printable_area, rect>>

\* ------------------------------------------------------------- helpers
Ids(js) == {js[i].job_id : i \in 1..Len(js)}

\* position of job_id in the dict, 0 if absent
IndexOf(js, job_id) ==
    IF job_id \in Ids(js)
    THEN CHOOSE i \in 1..Len(js) : js[i].job_id = job_id
    ELSE 0

\* self.jobs.get(job_id); only used where job_id is a key
Job(job_id) == jobs[IndexOf(jobs, job_id)]

\* uuid.uuid4(): a value no job of the table has; the values are numbered in
\* the order they are drawn (MaxJobs + 1 when they are used up)
NewUuid(js) == Len(js) + 1

\* Python's None for a job that is not in the table
NotFound == [job_id |-> 0]

\* get_job: self.jobs.get(job_id)
GetJob(js, job_id) == IF job_id \in Ids(js) THEN js[IndexOf(js, job_id)] ELSE NotFound

NoFile == [exists |-> FALSE, parsable |-> TRUE, jobs |-> <<>>]

\* a file that was opened for writing and not written to the end: json.load
\* raises on it
Truncated == [exists |-> TRUE, parsable |-> FALSE, jobs |-> <<>>]

\* mutant of SavedQueue: the job added last is not written
SavedQueueWithoutLast(js) ==
    [exists |-> TRUE, parsable |-> TRUE,
     jobs |-> [i \in 1..(Len(js) - 1) |-> ToDict(js[i])]]

\* _save_queue: the whole table, every job through to_dict
SavedQueue(js) ==
    [exists |-> TRUE, parsable |-> TRUE, jobs |-> [i \in 1..Len(js) |-> ToDict(js[i])]]

\* open and json.dump always succeed
Reliable == "reliable"

\* open or json.dump may raise
Faulty == "faulty"

\* _save_queue lines 287-295: the file after the call.  On a disk that may
\* fail, open(..., 'w') raises and the file is as it was, or the file is
\* opened, which empties it, and json.dump raises before it is complete;
\* the exception is logged and swallowed.
SaveQueue(js, f, d) ==
    IF d = Reliable THEN {SavedQueue(js)} ELSE {SavedQueue(js), f, Truncated}

\* the sends are not counted
NotCounted == <<>>

\* one more send of job_id has returned
\* where sends are counted, count[job_id] holds one number per attempt of the
\* job: the calls of print_pdf / print_image that returned in that attempt
AttemptStarted(count, job_id) ==
    IF count = NotCounted THEN NotCounted
    ELSE [count EXCEPT ![job_id] = Append(@, 0)]

Counted(count, job_id) ==
    IF count = NotCounted THEN NotCounted
    ELSE [count EXCEPT ![job_id] = [@ EXCEPT ![Len(@)] = @ + 1]]

\* mutant of LoadedJob: the reset of PROCESSING jobs is missing
LoadedJobNoReset(data, now) == FromDict(data, now)

\* _load_queue, the loop body: a job found PROCESSING is reset to PENDING
LoadedJob(data, now) ==
    LET job == FromDict(data, now)
    IN  IF job.status = "PROCESSING" THEN [job EXCEPT !.status = "PENDING"] ELSE job

\* mutant of LoadQueue: the jobs of the file are taken in reverse order
LoadQueueReversed(f, now) ==
    IF f.exists
    THEN [i \in 1..Len(f.jobs) |-> LoadedJob(f.jobs[Len(f.jobs) + 1 - i], now)]
    ELSE <<>>

\* from_dict raises on this record: JobStatus(data['status']) knows no
\* member of that value
Readable(data) == \E st \in JobStatus : StatusValue(st) = data.status

\* the records of the file before the first one from_dict raises on
RECURSIVE GoodPrefixLen(_)
GoodPrefixLen(records) ==
    IF records = <<>> \/ ~Readable(Head(records)) THEN 0
    ELSE 1 + GoodPrefixLen(Tail(records))

\* mutant of LoadQueue: a record that cannot be read empties the table
LoadQueueAllOrNothing(f, now) ==
    IF f.exists /\ f.parsable /\ GoodPrefixLen(f.jobs) = Len(f.jobs)
    THEN [i \in 1..Len(f.jobs) |-> LoadedJob(f.jobs[i], now)]
    ELSE <<>>

\* _load_queue: the table built from the file.  It is empty when there is
\* no file or json.load raises; an exception raised for a record ends the
\* loading, the jobs before that record stay in the table.
LoadQueue(f, now) ==
    IF f.exists /\ f.parsable
    THEN [i \in 1..GoodPrefixLen(f.jobs) |-> LoadedJob(f.jobs[i], now)]
    ELSE <<>>

\* the ids _load_queue finds PROCESSING in the file (lines 307-308)
ResetOnLoad(f) ==
    IF f.exists /\ f.parsable
    THEN {f.jobs[i].job_id :
              i \in {k \in 1..GoodPrefixLen(f.jobs) : f.jobs[k].status = "processing"}}
    ELSE {}

\* mutant of CanCancel: only a PENDING job can be cancelled
CanCancelPendingOnly(js, job_id) ==
    /\ job_id \in Ids(js)
    /\ js[IndexOf(js, job_id)].status = "PENDING"

\* mutant of CanCancel: the status test is missing
CanCancelAnyStatus(js, job_id) == job_id \in Ids(js)

\* cancel_job line 179: job and job.status in [PENDING, PROCESSING]
CanCancel(js, job_id) ==
    /\ job_id \in Ids(js)
    /\ js[IndexOf(js, job_id)].status \in {"PENDING", "PROCESSING"}

\* mutant of PendingIds: every job of the table is returned
PendingIdsAll(js) == [i \in 1..Len(js) |-> js[i].job_id]

\* mutant of PendingIds: the PENDING jobs, the youngest first
RECURSIVE PendingIdsReversed(_)
PendingIdsReversed(js) ==
    IF js = <<>> THEN <<>>
    ELSE IF Head(js).status = "PENDING"
         THEN PendingIdsReversed(Tail(js)) \o <<Head(js).job_id>>
         ELSE PendingIdsReversed(Tail(js))

\* mutant of PendingIds: FAILED jobs are returned as well
RECURSIVE PendingIdsWithFailed(_)
PendingIdsWithFailed(js) ==
    IF js = <<>> THEN <<>>
    ELSE IF Head(js).status \in {"PENDING", "FAILED"}
         THEN <<Head(js).job_id>> \o PendingIdsWithFailed(Tail(js))
         ELSE PendingIdsWithFailed(Tail(js))

\* get_pending_jobs: ids of the jobs that are PENDING, in dict order
RECURSIVE PendingIds(_)
PendingIds(js) ==
    IF js = <<>> THEN <<>>
    ELSE IF Head(js).status = "PENDING"
         THEN <<Head(js).job_id>> \o PendingIds(Tail(js))
         ELSE PendingIds(Tail(js))

\* mutant of UpdatedJobs: the assignment job.status = status is missing
UpdatedJobsKeepsStatus(js, job_id, status, error_message, now) ==
    IF job_id \in Ids(js)
    THEN [js EXCEPT ![IndexOf(js, job_id)] =
            [@ EXCEPT !.updated_at = now,
                      !.error_message =
                          IF error_message # None THEN error_message ELSE @]]
    ELSE js

\* update_job_status lines 158-163 on the table js
UpdatedJobs(js, job_id, status, error_message, now) ==
    IF job_id \in Ids(js)
    THEN [js EXCEPT ![IndexOf(js, job_id)] =
            [@ EXCEPT !.status = status,
                      !.updated_at = now,
                      !.error_message =
                          IF error_message # None THEN error_message ELSE @]]
    ELSE js

\* mutant of CopiesLeft: the last copy is left out
CopiesLeftOneShort(job, sent) == sent < job.copies - 1

\* print_file line 230: for i in range(copies), after sent copies
CopiesLeft(job, sent) == sent < job.copies

\* mutant of ForEnds: the check of is_running in the for loop is missing
ForEndsNoBreak(snapshot, i, running) == i > Len(snapshot)

\* lines 233-235: the for loop ends after the last job of the snapshot, or
\* with break when is_running has been cleared
ForEnds(snapshot, i, running) == i > Len(snapshot) \/ ~running

\* mutant of MayRetry: the comparison admits one attempt too many
MayRetryOffByOne(job) == job.retry_count <= job.max_retries

\* line 260: job.retry_count < job.max_retries
MayRetry(job) == job.retry_count < job.max_retries

\* ----------------------------------------------- print_image arithmetic
\* Python computes scale = min(HORZRES / width, VERTRES / height) and
\* int(width * scale), int(height * scale) in binary64 floating point; below
\* both are computed on integers, with the rounding of the division and of
\* the product to 53 bits worked out from remainders.

\* the largest e with 2^e <= n, for n >= 1
RECURSIVE FloorLog2(_)
FloorLog2(n) == IF n < 2 THEN 0 ELSE 1 + FloorLog2(n \div 2)

\* the largest e (possibly negative) with 2^e <= p / d: the binary exponent
\* of the quotient
RECURSIVE FloorLog2Ratio(_, _)
FloorLog2Ratio(p, d) ==
    IF p >= 2 * d THEN 1 + FloorLog2Ratio(p, 2 * d)
    ELSE IF p >= d THEN 0
    ELSE FloorLog2Ratio(2 * p, d) - 1

\* (p * 2^k) mod d
RECURSIVE RemPow(_, _, _)
RemPow(p, k, d) == IF k = 0 THEN p % d ELSE (2 * RemPow(p, k - 1, d)) % d

\* binary64 has 53 significant bits: the last one kept has weight 2^(e - 52)
MantissaBits == 52

\* p / d in floating point: the quotient is cut after 53 bits and rounded to
\* nearest, ties to even.  r is the remainder left behind (0: p / d is exact),
\* down says that the float is below p / d, e is its binary exponent.
FloatQuotient(p, d) ==
    LET e == FloorLog2Ratio(p, d)
        r1 == RemPow(p, MantissaBits - e - 1, d)
        odd == 2 * r1 >= d
        r == (2 * r1) % d
    IN  [e |-> e, r |-> r,
         down |-> r # 0 /\ (2 * r < d \/ (2 * r = d /\ ~odd))]

\* mutant of IntOfProduct: the exact quotient, cut
IntOfProductExact(m, p, d) == (m * p) \div d

\* int(m * (p / d)) for positive integers.  When m * p / d is not an integer
\* the rounding errors are far smaller than its distance to the next integer;
\* when it is an integer n and p / d was rounded down, the product lies
\* below n and is rounded to n only if it is within half a unit in the last
\* place of n, otherwise int() cuts it to n - 1.
IntOfProduct(m, p, d) ==
    LET n == (m * p) \div d
        q == FloatQuotient(p, d)
    IN  IF (m * p) % d # 0 \/ n = 0 \/ ~q.down THEN n
        ELSE LET E == FloorLog2(n)
                 half == IF 2^E = n THEN 4 ELSE 2
             IN  IF half * m * q.r <= d * 2^(E - q.e) THEN n ELSE n - 1

\* lines 175-177: scale is scale_x when scale_x <= scale_y, as a fraction
Scale(size, area) ==
    IF area[1] * size[2] <= area[2] * size[1]
    THEN <<area[1], size[1]>>
    ELSE <<area[2], size[2]>>

\* lines 180-181: <<new_width, new_height>>
NewSize(size, area) ==
    LET sc == Scale(size, area)
    IN  <<IntOfProduct(size[1], sc[1], sc[2]), IntOfProduct(size[2], sc[1], sc[2])>>

\* mutant of DrawRect: the whole free width is put to the left of the image
DrawRectNotHalved(size, area) ==
    LET new == NewSize(size, area)
        x == area[1] - new[1]
        y == (area[2] - new[2]) \div 2
    IN  <<x, y, x + new[1], y + new[2]>>

\* lines 184-189: the rectangle (x, y, x + new_width, y + new_height), the
\* image centred in the printable area; // is floor division
DrawRect(size, area) ==
    LET new == NewSize(size, area)
        x == (area[1] - new[1]) \div 2
        y == (area[2] - new[2]) \div 2
    IN  <<x, y, x + new[1], y + new[2]>>

NoHist == [origin |-> "none", started |-> 0, failed |-> 0, succeeded |-> 0]

NoRet == <<>>

\* the API is served once create_app has run, which starts the loop
Serving == pc # "none"

\* ---------------------------------------------------------------- Init
\* PrintQueue.__init__ on a persistence file that does not exist yet
\* ------------------------------------------------------------ threads
\* self.lock, a threading.Lock nobody holds
Free == "free"

\* The specifications that take every with self.lock block as one step,
\* acquire to release, do not follow the lock: it has this value throughout.
LockElided == "elided"

\* with self.lock: thread t is inside the block once it has acquired the
\* lock; where the lock is not followed the block is entered at once
InWith(t) == lock \in {LockElided, t}

\* mutant of Released: the block of the loop thread does not end with the
\* method, the thread goes on with the lock
ReleasedByClientOnly(t) ==
    IF lock = LockElided THEN LockElided ELSE IF t = "loop" THEN lock ELSE Free

\* the end of the with self.lock block of thread t: the lock is released
Released(t) == IF lock = LockElided THEN LockElided ELSE Free

\* no second loop thread
NoThread == <<>>

\* a thread that has not left _process_queue
Live(p) == p \notin {"none", "exited"}

QueueInit ==
    /\ disk = Reliable
    /\ other = NoThread
    /\ tid = 1
    /\ processing_thread = 0
    /\ joining = FALSE
    /\ waited = 0
    /\ file = NoFile
    /\ max_retries \in 0..MaxRetriesArg
    /\ clock = 0
    /\ jobs = LoadQueue(file, clock)
    /\ is_running = FALSE
    /\ pc = "none"
    /\ pending_jobs = <<>>
    /\ idx = 1
    /\ copy_i = 0
    /\ exc = NoException
    /\ crashes = 0
    /\ ret = NoRet
    /\ cancelled = {}
    /\ hist = [j \in JobIds |-> NoHist]

\* no image has been opened
NoSize == <<0, 0>>

NoRect == <<>>

\* the process after construction: nothing is being printed
Init ==
    /\ QueueInit
    /\ lock = LockElided
    /\ sends = NotCounted
    /\ image_size = NoSize
    /\ printable_area = NoSize
    /\ rect = NoRect

dispatcher_vars == <<pc, pending_jobs, idx, copy_i, exc>>

\* ------------------------------------------------------------ API calls
\* add_job with the arguments r; job_id is the uuid4 drawn
AddJob(job_id, r) ==
    /\ InWith("client")
    /\ lock' = Released("client")
    /\ Serving
    /\ job_id = NewUuid(jobs)
    /\ LET job == [ PrintJob(job_id, r.file_path, r.file_format, r.printer_name,
                             r.options, r.copies, clock)
                    EXCEPT !.max_retries = max_retries ]
           new == Append(jobs, job)
       IN  /\ jobs' = new
           /\ file' \in SaveQueue(new, file, disk)
    /\ ret' = <<"add_job", job_id, job_id>>
    /\ hist' = [hist EXCEPT ![job_id] = [NoHist EXCEPT !.origin = "add"]]
    /\ UNCHANGED <<max_retries, printer_vars, env_vars, thread_vars, is_running, dispatcher_vars, clock, crashes,
                   cancelled>>

\* cancel_job
CancelJob(job_id) ==
    /\ InWith("client")
    /\ lock' = Released("client")
    /\ Serving
    /\ IF CanCancel(jobs, job_id)
       THEN LET new == [jobs EXCEPT ![IndexOf(jobs, job_id)] =
                          [@ EXCEPT !.status = "CANCELLED", !.updated_at = clock]]
            IN  /\ jobs' = new
                /\ file' \in SaveQueue(new, file, disk)
                /\ ret' = <<"cancel_job", job_id, TRUE>>
                /\ cancelled' = cancelled \cup {job_id}
       ELSE /\ ret' = <<"cancel_job", job_id, FALSE>>
            /\ UNCHANGED <<jobs, file, cancelled>>
    /\ UNCHANGED <<max_retries, printer_vars, env_vars, thread_vars, is_running, dispatcher_vars, clock, crashes, hist>>

\* the error_message arguments of update_job_status: None or a message
ClientMessages == {None, <<"message">>}

\* update_job_status called by a client of the store
UpdateJobStatus(job_id, status, error_message) ==
    /\ InWith("client")
    /\ lock' = Released("client")
    /\ Serving
    /\ LET new == UpdatedJobs(jobs, job_id, status, error_message, clock)
       IN  /\ jobs' = new
           /\ file' \in IF job_id \in Ids(jobs) THEN SaveQueue(new, file, disk) ELSE {file}
    /\ ret' = NoRet
    /\ UNCHANGED <<max_retries, printer_vars, env_vars, thread_vars, is_running, dispatcher_vars, clock, crashes,
                   cancelled, hist>>

\* get_job
GetJobCall(job_id) ==
    /\ InWith("client")
    /\ lock' = Released("client")
    /\ Serving
    /\ ret' = <<"get_job", job_id, GetJob(jobs, job_id)>>
    /\ UNCHANGED <<jobs, file, max_retries, printer_vars, env_vars, thread_vars, is_running, dispatcher_vars, clock,
                   crashes, cancelled, hist>>

\* get_all_jobs: list(self.jobs.values())
GetAllJobs ==
    /\ InWith("client")
    /\ lock' = Released("client")
    /\ Serving
    /\ ret' = <<"get_all_jobs", jobs>>
    /\ UNCHANGED <<jobs, file, max_retries, printer_vars, env_vars, thread_vars, is_running, dispatcher_vars, clock,
                   crashes, cancelled, hist>>

\* get_pending_jobs called by a client of the store
GetPendingJobs ==
    /\ InWith("client")
    /\ lock' = Released("client")
    /\ Serving
    /\ ret' = <<"get_pending_jobs", PendingIds(jobs)>>
    /\ UNCHANGED <<jobs, file, max_retries, printer_vars, env_vars, thread_vars, is_running, dispatcher_vars, clock,
                   crashes, cancelled, hist>>

\* start_processing, called once by create_app after the store is constructed
StartProcessing ==
    /\ pc = "none"
    /\ IF is_running
       THEN UNCHANGED <<is_running, pc, processing_thread>>
       ELSE /\ is_running' = TRUE
            /\ pc' = "while"
            /\ processing_thread' = tid
    /\ ret' = NoRet
    /\ UNCHANGED <<jobs, file, max_retries, printer_vars, env_vars, pending_jobs, idx, copy_i, exc,
                   clock, crashes, cancelled, hist, lock, other, tid, joining, waited>>

\* stop_processing: clears the flag; the join returns after at most 5 s
StopProcessing ==
    /\ UNCHANGED lock
    /\ Serving
    /\ is_running
    /\ is_running' = FALSE
    /\ ret' = NoRet
    /\ UNCHANGED <<jobs, file, max_retries, printer_vars, env_vars, thread_vars, dispatcher_vars, clock, crashes,
                   cancelled, hist>>

\* --------------------------------------------------- _process_queue steps
\* line 228: while self.is_running
LoopWhile ==
    /\ UNCHANGED lock
    /\ pc = "while"
    /\ pc' = IF is_running THEN "fetch" ELSE "exited"
    /\ ret' = NoRet
    /\ UNCHANGED <<jobs, file, max_retries, printer_vars, env_vars, thread_vars, is_running, pending_jobs, idx,
                   copy_i, exc, clock, crashes, cancelled, hist>>

\* line 231: pending_jobs = self.get_pending_jobs()
LoopFetch ==
    /\ InWith("loop")
    /\ lock' = Released("loop")
    /\ pc = "fetch"
    /\ pending_jobs' = PendingIds(jobs)
    /\ idx' = 1
    /\ pc' = "for"
    /\ ret' = NoRet
    /\ UNCHANGED <<jobs, file, max_retries, printer_vars, env_vars, thread_vars, is_running, copy_i, exc, clock,
                   crashes, cancelled, hist>>

\* lines 233-235: next job of the snapshot, or break when the flag is cleared
\* (the locals of a finished for loop are dead and are cleared)
LoopFor ==
    /\ UNCHANGED lock
    /\ pc = "for"
    /\ IF ForEnds(pending_jobs, idx, is_running)
       THEN /\ pc' = "sleep"
            /\ pending_jobs' = <<>>
            /\ idx' = 1
       ELSE /\ pc' = "mark"
            /\ UNCHANGED <<pending_jobs, idx>>
    /\ ret' = NoRet
    /\ UNCHANGED <<jobs, file, max_retries, printer_vars, env_vars, thread_vars, is_running, copy_i, exc, clock,
                   crashes, cancelled, hist>>

\* line 239: update_job_status(job.job_id, PROCESSING), then print_file is entered
LoopMark ==
    /\ InWith("loop")
    /\ lock' = Released("loop")
    /\ pc = "mark"
    /\ LET new == UpdatedJobs(jobs, pending_jobs[idx], "PROCESSING", None, clock)
       IN  /\ jobs' = new
           /\ file' \in SaveQueue(new, file, disk)
    /\ copy_i' = 0
    /\ pc' = "print"
    /\ hist' = [hist EXCEPT ![pending_jobs[idx]].started = @ + 1]
    /\ sends' = AttemptStarted(sends, pending_jobs[idx])
    /\ ret' = NoRet
    /\ UNCHANGED <<max_retries, printer_vars, disk, thread_vars, is_running, pending_jobs, idx, exc, clock,
                   crashes, cancelled>>

\* print_file lines 230-240: one copy is sent, or the send raises; after the
\* last copy print_file returns
LoopPrint ==
    /\ UNCHANGED lock
    /\ pc = "print"
    /\ \/ /\ CopiesLeft(Job(pending_jobs[idx]), copy_i)
          /\ \/ /\ copy_i' = copy_i + 1
                /\ sends' = Counted(sends, pending_jobs[idx])
                /\ UNCHANGED <<pc, exc>>
                /\ UNCHANGED hist
             \/ /\ pc' = "except"
                /\ \E e \in Errors : exc' = e
                /\ copy_i' = 0
                /\ hist' = [hist EXCEPT ![pending_jobs[idx]].failed = @ + 1]
                /\ UNCHANGED sends
       \/ /\ ~CopiesLeft(Job(pending_jobs[idx]), copy_i)
          /\ pc' = "completed"
          /\ copy_i' = 0
          /\ hist' = [hist EXCEPT ![pending_jobs[idx]].succeeded = @ + 1]
          /\ UNCHANGED <<exc, sends>>
    /\ ret' = NoRet
    /\ UNCHANGED <<jobs, file, max_retries, printer_vars, disk, thread_vars, is_running, pending_jobs, idx,
                   clock, crashes, cancelled>>

\* line 252: update_job_status(job.job_id, COMPLETED)
LoopCompleted ==
    /\ InWith("loop")
    /\ lock' = Released("loop")
    /\ pc = "completed"
    /\ LET new == UpdatedJobs(jobs, pending_jobs[idx], "COMPLETED", None, clock)
       IN  /\ jobs' = new
           /\ file' \in SaveQueue(new, file, disk)
    /\ idx' = idx + 1
    /\ pc' = "for"
    /\ ret' = NoRet
    /\ UNCHANGED <<max_retries, printer_vars, env_vars, thread_vars, is_running, pending_jobs, copy_i, exc, clock,
                   crashes, cancelled, hist>>

\* line 259: job.retry_count += 1, on the job object, without the lock or a save
LoopExcept ==
    /\ UNCHANGED lock
    /\ pc = "except"
    /\ jobs' = [jobs EXCEPT ![IndexOf(jobs, pending_jobs[idx])].retry_count = @ + 1]
    /\ pc' = "requeue"
    /\ ret' = NoRet
    /\ UNCHANGED <<file, max_retries, printer_vars, env_vars, thread_vars, is_running, pending_jobs, idx, copy_i,
                   exc, clock, crashes, cancelled, hist>>

\* lines 260-274: back to PENDING, or FAILED when the retries are used up
LoopRequeue ==
    /\ InWith("loop")
    /\ lock' = Released("loop")
    /\ pc = "requeue"
    /\ LET job == Job(pending_jobs[idx])
           new == IF MayRetry(job)
                  THEN UpdatedJobs(jobs, job.job_id, "PENDING",
                           RetryMessage(job.retry_count, job.max_retries, exc), clock)
                  ELSE UpdatedJobs(jobs, job.job_id, "FAILED",
                           ExceededMessage(exc), clock)
       IN  /\ jobs' = new
           /\ file' \in SaveQueue(new, file, disk)
    /\ exc' = NoException
    /\ idx' = idx + 1
    /\ pc' = "for"
    /\ ret' = NoRet
    /\ UNCHANGED <<max_retries, printer_vars, env_vars, thread_vars, is_running, pending_jobs, copy_i, clock,
                   crashes, cancelled, hist>>

\* line 277: time.sleep(2)
LoopSleep ==
    /\ UNCHANGED lock
    /\ pc = "sleep"
    /\ pc' = "while"
    /\ ret' = NoRet
    /\ UNCHANGED <<jobs, file, max_retries, printer_vars, env_vars, thread_vars, is_running, pending_jobs, idx,
                   copy_i, exc, clock, crashes, cancelled, hist>>

\* ------------------------------------------- failures outside a job
\* mutant of Backoff: there is no outer try, the exception ends the thread
BackoffFatal(e) == "exited"

\* lines 279-281: except Exception as e of the outer try: the exception is
\* logged and the thread goes to time.sleep(5)
Backoff(e) == "backoff"

\* line 231: the call of get_pending_jobs raises
LoopScanError ==
    /\ pc = "fetch"
    /\ \E e \in Errors : pc' = Backoff(e)
    /\ ret' = NoRet
    /\ UNCHANGED <<jobs, file, max_retries, printer_vars, env_vars, thread_vars, lock,
                   is_running, pending_jobs, idx, copy_i, exc, clock, crashes,
                   cancelled, hist>>

\* line 281: time.sleep(5), then the while condition is read again
LoopBackoff ==
    /\ pc = "backoff"
    /\ pc' = "while"
    /\ ret' = NoRet
    /\ UNCHANGED <<jobs, file, max_retries, printer_vars, env_vars, thread_vars, lock,
                   is_running, pending_jobs, idx, copy_i, exc, clock, crashes,
                   cancelled, hist>>

\* ------------------------------------------------- the lock, step by step
\* the methods that contain a with self.lock block are called by the clients
\* of the store and, at these points of _process_queue, by the loop
LockCallSite(t) ==
    IF t = "loop" THEN pc \in {"fetch", "mark", "completed", "requeue"}
    ELSE Serving

\* with self.lock: thread t acquires the lock, which blocks while another
\* thread holds it; the body and the release are the step of the method
Acquire(t) ==
    /\ LockCallSite(t)
    /\ lock = Free
    /\ lock' = t
    /\ ret' = NoRet
    /\ UNCHANGED <<jobs, file, max_retries, printer_vars, env_vars, thread_vars, is_running,
                   dispatcher_vars, clock, crashes, cancelled, hist>>

\* ------------------------------------------- start and stop, step by step
\* the locals of a thread that has just been started
NewThread(t) ==
    [tid |-> t, pc |-> "while", pending_jobs |-> <<>>, idx |-> 1, copy_i |-> 0,
     exc |-> NoException]

\* where thread t stands; a thread that is not there has exited
ThreadPc(t) ==
    IF t = tid THEN pc
    ELSE IF other # NoThread /\ other.tid = t THEN other.pc
    ELSE "exited"

\* start_processing called again by a client of the store, after the call of
\* create_app: nothing happens while is_running is set; otherwise the flag
\* is set and a new thread is started, whether or not an older one is still
\* inside _process_queue.  At most two threads are followed.
StartProcessingLater ==
    /\ Serving
    /\ ~joining
    /\ IF is_running
       THEN UNCHANGED <<is_running, dispatcher_vars, other, tid, processing_thread>>
       ELSE /\ processing_thread < MaxThreads
            /\ is_running' = TRUE
            /\ processing_thread' = processing_thread + 1
            /\ IF Live(pc)
               THEN /\ other = NoThread
                    /\ other' = NewThread(processing_thread + 1)
                    /\ UNCHANGED <<dispatcher_vars, tid>>
               ELSE /\ pc' = "while"
                    /\ pending_jobs' = <<>>
                    /\ idx' = 1
                    /\ copy_i' = 0
                    /\ exc' = NoException
                    /\ tid' = processing_thread + 1
                    /\ UNCHANGED other
    /\ ret' = NoRet
    /\ UNCHANGED <<jobs, file, max_retries, printer_vars, env_vars, lock, joining, waited,
                   clock, crashes, cancelled, hist>>

\* stop_processing lines 214-216: the flag is cleared and, when a thread was
\* ever started, the caller enters join(timeout=5)
StopProcessingFlag ==
    /\ Serving
    /\ ~joining
    /\ is_running' = FALSE
    /\ joining' = (processing_thread # 0)
    /\ waited' = 0
    /\ ret' = NoRet
    /\ UNCHANGED <<jobs, file, max_retries, printer_vars, env_vars, lock, other, tid,
                   processing_thread, dispatcher_vars, clock, crashes, cancelled, hist>>

\* A second passes while the caller waits in join and the thread is inside
\* a send.  The other steps of the thread take less than the timeout
\* (time.sleep(2) included) and are not timed.
JoinWait ==
    /\ joining
    /\ ThreadPc(processing_thread) = "print"
    /\ waited < JoinTimeout
    /\ waited' = waited + 1
    /\ UNCHANGED <<jobs, file, max_retries, printer_vars, env_vars, lock, other, tid,
                   processing_thread, joining, is_running, dispatcher_vars, clock,
                   crashes, ret, cancelled, hist>>

\* mutant of JoinOver: join() without a timeout
JoinOverNoTimeout(p, w) == ~Live(p)

\* join(timeout=5) is over when the thread has exited or 5 seconds have passed
JoinOver(p, w) == ~Live(p) \/ w = JoinTimeout

\* line 216-217: join returns, and with it stop_processing
JoinReturn ==
    /\ joining
    /\ JoinOver(ThreadPc(processing_thread), waited)
    /\ joining' = FALSE
    /\ waited' = 0
    /\ ret' = NoRet
    /\ UNCHANGED <<jobs, file, max_retries, printer_vars, env_vars, lock, other, tid,
                   processing_thread, is_running, dispatcher_vars, clock, crashes,
                   cancelled, hist>>

\* the interpreter takes the other loop thread in; a thread that has exited
\* is forgotten
ContextSwitch ==
    /\ other # NoThread
    /\ lock # "loop"
    /\ pc' = other.pc
    /\ pending_jobs' = other.pending_jobs
    /\ idx' = other.idx
    /\ copy_i' = other.copy_i
    /\ exc' = other.exc
    /\ tid' = other.tid
    /\ other' = IF Live(pc)
                THEN [tid |-> tid, pc |-> pc, pending_jobs |-> pending_jobs,
                      idx |-> idx, copy_i |-> copy_i, exc |-> exc]
                ELSE NoThread
    /\ ret' = NoRet
    /\ UNCHANGED <<jobs, file, max_retries, printer_vars, env_vars, lock, processing_thread,
                   joining, waited, is_running, clock, crashes, cancelled, hist>>

\* ------------------------------------------------------------ print_image
\* the images and printers print_image is run on
ImageSizes ==
    { <<1000, 800>>, <<800, 1000>>, <<512, 800>>, <<512, 100>>, <<561, 64>>,
      <<47, 47>>, <<400, 300>>, <<1, 1>> }

PrintableAreas ==
    { <<512, 1000>>, <<512, 300>>, <<608, 800>>, <<608, 1000>>, <<384, 1000>>,
      <<1000, 800>> }

\* print_image lines 159-189 for an image and a printer that exist
PrintImage ==
    /\ rect = NoRect
    /\ rect' = DrawRect(image_size, printable_area)
    /\ UNCHANGED <<jobs, file, max_retries, is_running, dispatcher_vars, clock,
                   crashes, ret, cancelled, hist, image_size, printable_area,
                   lock, thread_vars, env_vars>>

\* ------------------------------------------------------------ environment
\* time passes
Tick ==
    /\ UNCHANGED lock
    /\ clock < MaxClock
    /\ clock' = clock + 1
    /\ ret' = NoRet
    /\ UNCHANGED <<jobs, file, max_retries, printer_vars, env_vars, thread_vars, is_running, dispatcher_vars,
                   crashes, cancelled, hist>>

\* the process is killed at any point and started again: PrintQueue.__init__
\* rebuilds the table from the file; the threads of the old process are gone
Restart ==
    /\ crashes < MaxCrashes
    /\ crashes' = crashes + 1
    /\ jobs' = LoadQueue(file, clock)
    /\ is_running' = FALSE
    /\ pc' = "none"
    /\ pending_jobs' = <<>>
    /\ idx' = 1
    /\ copy_i' = 0
    /\ exc' = NoException
    /\ ret' = NoRet
    /\ hist' = [j \in JobIds |->
                  IF j \in ResetOnLoad(file) THEN [NoHist EXCEPT !.origin = "reset"]
                  ELSE IF j \in Ids(jobs') THEN [NoHist EXCEPT !.origin = "load"]
                  ELSE NoHist]
    /\ cancelled' = {}
    /\ lock' = IF lock = LockElided THEN LockElided ELSE Free
    /\ other' = NoThread
    /\ tid' = 1
    /\ processing_thread' = 0
    /\ joining' = FALSE
    /\ waited' = 0
    /\ UNCHANGED <<file, max_retries, printer_vars, env_vars, clock>>

Next ==
    \/ \E job_id \in JobIds, r \in Requests : AddJob(job_id, r)
    \/ \E job_id \in JobIds : CancelJob(job_id)
    \/ StartProcessing
    \/ StopProcessing
    \/ LoopWhile
    \/ LoopFetch
    \/ LoopFor
    \/ LoopMark
    \/ LoopPrint
    \/ LoopCompleted
    \/ LoopExcept
    \/ LoopRequeue
    \/ LoopSleep
    \/ Tick

\* one run of the process
Spec == Init /\ [][Next]_vars

\* the steps of the thread that runs _process_queue
Dispatch ==
    \/ LoopWhile
    \/ LoopFetch
    \/ LoopFor
    \/ LoopMark
    \/ LoopPrint
    \/ LoopCompleted
    \/ LoopExcept
    \/ LoopRequeue
    \/ LoopSleep

\* The process runs until it is killed and is then started again, up to
\* MaxCrashes times (main.shutdown calls stop_processing only to exit right
\* after it, so the kill stands for the shutdown as well).  No guard of the
\* program reads a timestamp, and here the clock stays where it is.
NextRestart ==
    \/ \E job_id \in JobIds, r \in Requests : AddJob(job_id, r)
    \/ \E job_id \in JobIds : CancelJob(job_id)
    \/ StartProcessing
    \/ Dispatch
    \/ Restart

SpecRestart == Init /\ [][NextRestart]_vars

\* The runs on which progress is checked: as NextRestart, with the cancel_job
\* calls that are refused left out (they change nothing but the value
\* returned) and every request asking for two copies.
NextRecovery ==
    \/ \E job_id \in JobIds, r \in {q \in Requests : q.copies = 2} : AddJob(job_id, r)
    \/ \E job_id \in JobIds : CanCancel(jobs, job_id) /\ CancelJob(job_id)
    \/ StartProcessing
    \/ Dispatch
    \/ Restart

\* create_app starts the loop as soon as the store exists, the thread is
\* scheduled as long as it can take a step, and every send returns or raises
SpecRecovery ==
    /\ Init
    /\ [][NextRecovery]_vars
    /\ WF_vars(StartProcessing)
    /\ WF_vars(Dispatch)

\* add_job called by any client with any arguments, valid or not, while the
\* thread of the loop has not been scheduled yet
NextAdmission ==
    \/ \E job_id \in JobIds, r \in Requests \cup InvalidRequests : AddJob(job_id, r)
    \/ \E job_id \in JobIds : CancelJob(job_id)
    \/ StartProcessing
    \/ Tick

SpecAdmission == Init /\ [][NextAdmission]_vars

\* update_job_status called by any client with any arguments between add_job
\* and cancel_job calls, while the thread of the loop has not been scheduled
\* yet.  Every request asks for one copy.
NextStore ==
    \/ \E job_id \in JobIds, r \in {q \in Requests : q.copies = 1} : AddJob(job_id, r)
    \/ \E job_id \in JobIds : CancelJob(job_id)
    \/ \E job_id \in JobIds, status \in JobStatus, e \in ClientMessages :
          UpdateJobStatus(job_id, status, e)
    \/ StartProcessing
    \/ Tick

SpecStore == Init /\ [][NextStore]_vars

\* The reading methods of the store called between add_job and cancel_job
\* calls, while the thread of the loop has not been scheduled yet; the
\* process may be killed and started again.
NextReads ==
    \/ \E job_id \in JobIds, r \in Requests : AddJob(job_id, r)
    \/ \E job_id \in JobIds : CancelJob(job_id)
    \/ \E job_id \in JobIds : GetJobCall(job_id)
    \/ GetAllJobs
    \/ GetPendingJobs
    \/ StartProcessing
    \/ Tick
    \/ Restart

SpecReads == Init /\ [][NextReads]_vars

\* The lock followed step by step: every with self.lock block is entered
\* by an Acquire step of its thread.  One client and the loop thread; every
\* request asks for one copy.
InitLock ==
    /\ QueueInit
    /\ lock = Free
    /\ sends = NotCounted
    /\ image_size = NoSize
    /\ printable_area = NoSize
    /\ rect = NoRect

NextLock ==
    \/ \E t \in {"client", "loop"} : Acquire(t)
    \/ \E job_id \in JobIds, r \in {q \in Requests : q.copies = 1} : AddJob(job_id, r)
    \/ \E job_id \in JobIds : CancelJob(job_id)
    \/ \E job_id \in JobIds : GetJobCall(job_id)
    \/ GetAllJobs
    \/ StartProcessing
    \/ Dispatch

SpecLock == InitLock /\ [][NextLock]_vars

\* start_processing and stop_processing followed step by step, called by a
\* client of the store in any order; stop_processing is left only through
\* its join.  Every request asks for one copy.
NextLoops ==
    \/ \E job_id \in JobIds, r \in {q \in Requests : q.copies = 1} : AddJob(job_id, r)
    \/ StartProcessing
    \/ StartProcessingLater
    \/ StopProcessingFlag
    \/ JoinWait
    \/ JoinReturn
    \/ ContextSwitch
    \/ Dispatch

SpecLoops == Init /\ [][NextLoops]_vars

\* One run of the process in which stop_processing is called but
\* start_processing is not called again.
NextStop ==
    \/ \E job_id \in JobIds, r \in {q \in Requests : q.copies = 2} : AddJob(job_id, r)
    \/ StartProcessing
    \/ StopProcessingFlag
    \/ JoinWait
    \/ JoinReturn
    \/ Dispatch

\* every send returns or raises: the loop thread is scheduled as long as it
\* can take a step; time passes for the caller of join
SpecStop ==
    /\ Init
    /\ [][NextStop]_vars
    /\ WF_vars(Dispatch)
    /\ WF_vars(JoinWait)
    /\ WF_vars(JoinReturn)

\* the steps of the loop thread outside print_file
DispatchOutsideSend ==
    \/ LoopWhile
    \/ LoopFetch
    \/ LoopFor
    \/ LoopMark
    \/ LoopCompleted
    \/ LoopExcept
    \/ LoopRequeue
    \/ LoopSleep

\* a send may never return: the loop thread may stay inside print_file for
\* ever; time passes for the caller of join
SpecHang ==
    /\ Init
    /\ [][NextStop]_vars
    /\ WF_vars(DispatchOutsideSend)
    /\ WF_vars(JoinWait)
    /\ WF_vars(JoinReturn)

\* One run in which the scan of the loop may raise as well as the sends;
\* every request asks for one copy.
NextFaults ==
    \/ \E job_id \in JobIds, r \in {q \in Requests : q.copies = 1} : AddJob(job_id, r)
    \/ StartProcessing
    \/ StopProcessing
    \/ Dispatch
    \/ LoopScanError
    \/ LoopBackoff

\* the steps of the loop thread, the handler of the outer try included
DispatchOrBackoff ==
    \/ Dispatch
    \/ LoopBackoff

\* the loop thread is scheduled as long as it can take a step, and every
\* send returns or raises
SpecFaults ==
    /\ Init
    /\ [][NextFaults]_vars
    /\ WF_vars(DispatchOrBackoff)

\* print_image on its own, for each image size and each printable area
InitImage ==
    /\ QueueInit
    /\ lock = LockElided
    /\ sends = NotCounted
    /\ image_size \in ImageSizes
    /\ printable_area \in PrintableAreas
    /\ rect = NoRect

NextImage == PrintImage

SpecImage == InitImage /\ [][NextImage]_vars

\* ------------------------------------------------------------ properties
\* job_id is the job the loop is working on: marked, inside print_file, or
\* with the result of its attempt not yet written back
InFlight(job_id) ==
    /\ pc \in {"print", "completed", "except", "requeue"}
    /\ pending_jobs[idx] = job_id

\* the status changes of the state machine, by who makes them
DispatcherEdges ==
    { <<"PENDING", "PROCESSING">>, <<"PROCESSING", "COMPLETED">>,
      <<"PROCESSING", "PENDING">>, <<"PROCESSING", "FAILED">> }

CancelEdges == { <<"PENDING", "CANCELLED">>, <<"PROCESSING", "CANCELLED">> }

\* C1: in one run of the process every change of a job's status is one of
\* PENDING->PROCESSING, PROCESSING->COMPLETED, PROCESSING->PENDING,
\* PROCESSING->FAILED, made by a step of the loop, or PENDING->CANCELLED,
\* PROCESSING->CANCELLED, made by a cancel_job call that returns True.
C1_OnlyStateMachineEdges ==
    [][\A j \in Ids(jobs) :
          LET old == Job(j).status
              new == jobs'[IndexOf(jobs', j)].status
          IN  old # new =>
                \/ <<old, new>> \in DispatcherEdges /\ pc' # pc
                \/ <<old, new>> \in CancelEdges /\ ret' = <<"cancel_job", j, TRUE>>]_vars

\* C2: a job for which cancel_job has returned True has status CANCELLED in
\* every later state of the run, whatever the loop does afterwards.
C2_CancelledStaysCancelled ==
    \A j \in cancelled : Job(j).status = "CANCELLED"

\* C3: when the loop reaches a job of its snapshot that has been cancelled in
\* the meantime, it skips it: the job is not marked PROCESSING, print_file is
\* not entered for it, and it stays CANCELLED.
C3_CancelledInSnapshotIsSkipped ==
    [][(pc = "mark" /\ Job(pending_jobs[idx]).status = "CANCELLED")
          => /\ pc' # "print"
             /\ jobs'[IndexOf(jobs', pending_jobs[idx])].status = "CANCELLED"]_vars

\* job_id was admitted by add_job in this run, and no cancel_job call on it
\* has returned True
AddedNotCancelled(job_id) ==
    /\ hist[job_id].origin = "add"
    /\ job_id \notin cancelled

C5_CompletedAfterFewerFailures ==
    \A j \in JobIds :
        (AddedNotCancelled(j) /\ hist[j].succeeded >= 1
                              /\ hist[j].failed < max_retries) =>
            /\ hist[j].succeeded = 1
            /\ hist[j].started = hist[j].failed + 1
            /\ ~InFlight(j) =>
                  /\ Job(j).status = "COMPLETED"
                  /\ Job(j).retry_count = hist[j].failed

C5_Witness ==
    \E j \in JobIds :
        /\ AddedNotCancelled(j)
        /\ hist[j].succeeded = 1
        /\ hist[j].failed >= 1
        /\ Job(j).status = "COMPLETED"
        /\ Job(j).retry_count = hist[j].failed

\* the table in memory is the table of the file, with PROCESSING reset to
\* PENDING and nothing else changed in status, error detail and retry_count
LoadedAsPersisted ==
    /\ Len(jobs) = Len(file.jobs)
    /\ \A i \in 1..Len(jobs) :
          /\ jobs[i].job_id = file.jobs[i].job_id
          /\ jobs[i].status # "PROCESSING"
          /\ IF file.jobs[i].status = "processing"
             THEN jobs[i].status = "PENDING"
             ELSE StatusValue(jobs[i].status) = file.jobs[i].status
          /\ jobs[i].error_message = file.jobs[i].error_message
          /\ jobs[i].retry_count = file.jobs[i].retry_count

\* C6: right after the store is constructed from the persisted table no job
\* is PROCESSING: a job persisted as processing is PENDING, and every other
\* job has its persisted status; error detail and retry_count of every job
\* are the persisted ones.
C6_LoadResetsProcessingOnly ==
    [][crashes' # crashes => LoadedAsPersisted']_vars

C6_Witness ==
    /\ crashes >= 1
    /\ pc = "none"
    /\ \E i, k \in 1..Len(jobs) :
          /\ file.jobs[i].status = "processing"
          /\ jobs[i].status = "PENDING"
          /\ file.jobs[k].status = "failed"
          /\ jobs[k].status = "FAILED"
          /\ jobs[k].retry_count >= 1
          /\ jobs[k].error_message # None

\* job_id was PROCESSING in the file when this process loaded it, and this
\* process has not yet marked it PROCESSING and entered print_file for it
AwaitsReattempt(job_id) ==
    /\ hist[job_id].origin = "reset"
    /\ hist[job_id].started = 0

C8_PendingUntilLoopTouches ==
    /\ (Len(ret) = 3 /\ ret[1] = "add_job") => hist[ret[3]].origin = "add"
    /\ \A j \in JobIds :
          hist[j].origin = "add" =>
              /\ GetJob(jobs, j) # NotFound
              /\ hist[j].started = 0 =>
                    /\ GetJob(jobs, j).status = "PENDING"
                    /\ GetJob(jobs, j).retry_count = 0
                    /\ GetJob(jobs, j).error_message = None

\* C8: get_job of an id returned by add_job finds the job in every later
\* state of the run, and as long as neither a step of the loop nor a
\* cancel_job call has touched the job its status is PENDING, its
\* retry_count 0 and its error detail None.
C8_VisibleAndPendingAfterAdd ==
    /\ (Len(ret) = 3 /\ ret[1] = "add_job") => hist[ret[3]].origin = "add"
    /\ \A j \in JobIds :
          hist[j].origin = "add" =>
              /\ GetJob(jobs, j) # NotFound
              /\ (hist[j].started = 0 /\ j \notin cancelled) =>
                    /\ GetJob(jobs, j).status = "PENDING"
                    /\ GetJob(jobs, j).retry_count = 0
                    /\ GetJob(jobs, j).error_message = None

C8_Witness ==
    /\ Len(ret) = 3
    /\ ret[1] = "add_job"
    /\ pc = "print"
    /\ pending_jobs[idx] # ret[3]
    /\ GetJob(jobs, ret[3]).status = "PENDING"

\* the record of job_id in the file, NotFound if the file has none
FileRecord(job_id) ==
    IF \E i \in 1..Len(file.jobs) : file.jobs[i].job_id = job_id
    THEN file.jobs[CHOOSE i \in 1..Len(file.jobs) : file.jobs[i].job_id = job_id]
    ELSE NotFound

\* C9: cancel_job(job_id) returns True exactly when the job is in the table
\* with status PENDING or PROCESSING at the call; when it returns True the
\* job is CANCELLED and the file holds it as cancelled when the call returns.
C9_CancelReturnsTrueIffActive ==
    [][\A j \in JobIds :
          (Len(ret') = 3 /\ ret'[1] = "cancel_job" /\ ret'[2] = j) =>
              /\ ret'[3] = (/\ j \in Ids(jobs)
                            /\ Job(j).status \in {"PENDING", "PROCESSING"})
              /\ ret'[3] =>
                    /\ jobs'[IndexOf(jobs', j)].status = "CANCELLED"
                    /\ FileRecord(j)' # NotFound
                    /\ FileRecord(j)'.status = "cancelled"]_vars

C9_Witness ==
    \E j \in JobIds :
        /\ ret = <<"cancel_job", j, TRUE>>
        /\ InFlight(j)
        /\ Job(j).status = "CANCELLED"
        /\ FileRecord(j).status = "cancelled"

\* C10: cancel_job on a job that is COMPLETED, FAILED or CANCELLED, or on an
\* id that is not in the table, returns False and leaves every job of the
\* table (updated_at included) and the file as they are.
C10_RefusedCancelChangesNothing ==
    [][\A j \in JobIds :
          ( /\ Len(ret') = 3 /\ ret'[1] = "cancel_job" /\ ret'[2] = j
            /\ \/ j \notin Ids(jobs)
               \/ Job(j).status \in {"COMPLETED", "FAILED", "CANCELLED"} ) =>
              /\ ret'[3] = FALSE
              /\ jobs' = jobs
              /\ file' = file]_vars

C10_Witness ==
    \E j \in JobIds :
        /\ ret = <<"cancel_job", j, FALSE>>
        /\ j \in Ids(jobs)
        /\ Job(j).status = "COMPLETED"
        /\ Job(j).updated_at < clock

\* C11: once a job is COMPLETED or FAILED, no step of the loop and no
\* cancel_job call changes its status, error detail or retry_count, so get_job
\* keeps returning the same final state.
C11_CompletedFailedTerminal ==
    [][\A j \in Ids(jobs) :
          Job(j).status \in {"COMPLETED", "FAILED"} =>
              /\ GetJob(jobs', j) # NotFound
              /\ GetJob(jobs', j).status = Job(j).status
              /\ GetJob(jobs', j).error_message = Job(j).error_message
              /\ GetJob(jobs', j).retry_count = Job(j).retry_count]_vars

C11_Witness ==
    \E j, k \in JobIds :
        /\ j # k
        /\ j \in Ids(jobs)
        /\ Job(j).status = "FAILED"
        /\ ret = <<"cancel_job", j, FALSE>>
        /\ hist[k].started >= 2
        /\ InFlight(k)

\* the ids of the jobs that are PROCESSING
ProcessingIds == {j \in Ids(jobs) : Job(j).status = "PROCESSING"}

\* C12: with the one loop create_app starts, in every state, also after the
\* process was killed and the table reloaded, at most one job is PROCESSING.
C12_AtMostOneProcessing ==
    Cardinality(ProcessingIds) <= 1

C12_Witness ==
    \E j, k \in JobIds :
        /\ crashes >= 1
        /\ hist[j].origin = "reset"
        /\ hist[j].started = 0
        /\ Job(j).status = "PENDING"
        /\ InFlight(k)
        /\ ProcessingIds = {k}

\* C13: add_job with copies outside MinCopies..MaxCopies or with an empty
\* printer name is refused and creates no job: no step puts a job with such
\* arguments into the table or into the file.
C13_InvalidAddRejected ==
    [][\A j \in JobIds :
          /\ (j \notin Ids(jobs) /\ j \in Ids(jobs')) =>
                 ValidArguments(GetJob(jobs', j))
          /\ (FileRecord(j) = NotFound /\ FileRecord(j)' # NotFound) =>
                 ValidArguments(FileRecord(j)')]_vars

\* the file holds one record for every job of the table, in the same order,
\* with the job's status, error detail and retry_count
FileMatchesTable ==
    /\ file.exists
    /\ Len(file.jobs) = Len(jobs)
    /\ \A i \in 1..Len(jobs) :
          /\ file.jobs[i].job_id = jobs[i].job_id
          /\ file.jobs[i].status = StatusValue(jobs[i].status)
          /\ file.jobs[i].error_message = jobs[i].error_message
          /\ file.jobs[i].retry_count = jobs[i].retry_count

\* the step is a call that changes the table: add_job, a cancel_job that
\* returns True, or one of the loop's update_job_status calls
MutatingCall ==
    \/ Len(ret') = 3 /\ ret'[1] = "add_job"
    \/ Len(ret') = 3 /\ ret'[1] = "cancel_job" /\ ret'[3] = TRUE
    \/ pc \in {"mark", "completed", "requeue"} /\ pc' # pc /\ crashes' = crashes

C15_CopiesSentInOneAttempt ==
    [][/\ pc = "print" =>
             LET job == Job(pending_jobs[idx])
             IN  /\ copy_i' # copy_i /\ pc' = "print" =>
                        copy_i' = copy_i + 1 /\ copy_i' <= job.copies
                 /\ pc' = "except" => copy_i < job.copies /\ copy_i' = 0
                 /\ pc' = "completed" => copy_i = job.copies
       /\ \A j \in Ids(jobs) :
             (Job(j).status # "COMPLETED" /\ GetJob(jobs', j).status = "COMPLETED")
                 => pc = "completed" /\ pending_jobs[idx] = j]_vars

C15_Witness ==
    /\ pc = "completed"
    /\ Job(pending_jobs[idx]).copies = 2
    /\ hist[pending_jobs[idx]].failed >= 1
    /\ hist[pending_jobs[idx]].succeeded = 1

\* new has the identity and the payload of old: the fields given at admission
SameAdmission(old, new) ==
    /\ new.job_id = old.job_id
    /\ new.file_path = old.file_path
    /\ new.file_format = old.file_format
    /\ new.printer_name = old.printer_name
    /\ new.options = old.options
    /\ new.copies = old.copies
    /\ new.created_at = old.created_at

\* C16: no step (update_job_status, cancel_job, a step of the loop, the
\* table being saved and loaded again) changes job_id, file_path,
\* file_format, printer_name, options, copies or created_at of a job; of all
\* fields of a job only status, updated_at, error_message and retry_count
\* ever change, so max_retries does not change either.
C16_OnlyMutableFieldsChange ==
    [][\A j \in Ids(jobs) :
          /\ GetJob(jobs', j) # NotFound
          /\ SameAdmission(Job(j), GetJob(jobs', j))
          /\ GetJob(jobs', j).max_retries = Job(j).max_retries]_vars

\* C17: update_job_status with a job_id that is not in the table changes no
\* job and does not write the file; with a job_id of the table it sets status
\* and updated_at of that job, replaces error_message only when a message is
\* given, leaves every other job as it is, and writes the table to the file.
C17_UpdateJobStatusContract ==
    [][\A j \in JobIds, s \in JobStatus, e \in ClientMessages :
          UpdateJobStatus(j, s, e) =>
              IF j \notin Ids(jobs)
              THEN jobs' = jobs /\ file' = file
              ELSE /\ Ids(jobs') = Ids(jobs)
                   /\ GetJob(jobs', j).status = s
                   /\ GetJob(jobs', j).updated_at = clock
                   /\ GetJob(jobs', j).error_message =
                          IF e # None THEN e ELSE Job(j).error_message
                   /\ GetJob(jobs', j).retry_count = Job(j).retry_count
                   /\ SameAdmission(Job(j), GetJob(jobs', j))
                   /\ \A k \in Ids(jobs) \ {j} : GetJob(jobs', k) = Job(k)
                   /\ FileMatchesTable']_vars

C17_Witness ==
    \E j, k \in JobIds :
        /\ j \in Ids(jobs)
        /\ k \notin Ids(jobs)
        /\ Job(j).status = "COMPLETED"
        /\ Job(j).error_message = <<"message">>
        /\ Job(j).created_at = 0
        /\ Job(j).updated_at = 1
        /\ FileMatchesTable

\* the jobs of the sequence l are in the order of their admission: ids are
\* numbered in the order uuid4 draws them, and created_at never decreases
InCreationOrder(l) ==
    \A i, k \in 1..Len(l) :
        i < k => /\ l[i].job_id < l[k].job_id
                 /\ l[i].created_at <= l[k].created_at

\* the step is a call of get_job, get_all_jobs or get_pending_jobs
ReadCall ==
    /\ Len(ret') >= 2
    /\ ret'[1] \in {"get_job", "get_all_jobs", "get_pending_jobs"}

\* C18: get_all_jobs returns every job of the table, in the order of
\* admission, also when the table has been saved and loaded again, and get_job,
\* get_all_jobs and get_pending_jobs change no job and do not touch the file.
C18_ListInCreationOrderReadsPure ==
    [][/\ (Len(ret') = 2 /\ ret'[1] = "get_all_jobs") =>
             /\ Ids(ret'[2]) = {j \in JobIds : hist[j].origin # "none"}
             /\ Len(ret'[2]) = Cardinality(Ids(ret'[2]))
             /\ \A i \in 1..Len(ret'[2]) : ret'[2][i] = Job(ret'[2][i].job_id)
             /\ InCreationOrder(ret'[2])
       /\ ReadCall => jobs' = jobs /\ file' = file]_vars

C18_Witness ==
    /\ crashes >= 1
    /\ Len(ret) = 2
    /\ ret[1] = "get_all_jobs"
    /\ Len(ret[2]) = 2
    /\ ret[2][1].status = "CANCELLED"
    /\ ret[2][1].created_at < ret[2][2].created_at
    /\ hist[1].origin = "load"
    /\ hist[2].origin = "add"

\* the elements of the sequence l
Range(l) == {l[i] : i \in 1..Len(l)}

\* C19: get_pending_jobs returns exactly the jobs that are PENDING at the call,
\* in the order of admission, as a list of its own: the loop's list changes
\* only when the loop fetches a new one (or drops it at the end of the cycle),
\* not when jobs are added or cancelled, every attempt is made on a job of the
\* list, and a job added while the loop is inside a cycle is not in the list
\* of that cycle.
C19_PendingIsSnapshot ==
    [][/\ (pc = "fetch" /\ pc' = "for") =>
             /\ Range(pending_jobs') = {j \in Ids(jobs) : Job(j).status = "PENDING"}
             /\ \A i, k \in 1..Len(pending_jobs') :
                   i < k => pending_jobs'[i] < pending_jobs'[k]
       /\ pending_jobs' # pending_jobs =>
             \/ pc = "fetch" /\ pc' = "for"
             \/ pc = "for" /\ pc' = "sleep" /\ pending_jobs' = <<>>
       /\ \A j \in JobIds :
             /\ hist'[j].started > hist[j].started =>
                    j \in Range(pending_jobs) /\ pending_jobs' = pending_jobs
             /\ (j \notin Ids(jobs) /\ j \in Ids(jobs')) =>
                    j \notin Range(pending_jobs')]_vars

C19_Witness ==
    \E j \in JobIds :
        /\ pc = "print"
        /\ hist[pending_jobs[idx]].failed >= 1
        /\ ret = <<"add_job", j, j>>
        /\ j \notin Range(pending_jobs)
        /\ pending_jobs[idx] \in cancelled
        /\ Job(j).status = "PENDING"

\* C20: every job of the table carries the max_retries the store was
\* constructed with, whether add_job created it or _load_queue restored it
\* from the file, so that the decision of line 260 is made with that value.
C20_JobsCarryStoreMaxRetries ==
    \A i \in 1..Len(jobs) : jobs[i].max_retries = max_retries


\* ------------------------------------------------------- print_image claims
Drawn == rect # NoRect

\* width and height of the rectangle handed to dib.draw
DrawnSize == <<rect[3] - rect[1], rect[4] - rect[2]>>

\* C21 as stated: an image that is not wider than the printable width keeps
\* its width, so the left margin is (printableWidth - width) div 2; it is 48
\* for a printable width of 608 and an image 512 wide.
C21_MarginFromImageWidth ==
    Drawn /\ image_size[1] <= printable_area[1]
        => rect[1] = (printable_area[1] - image_size[1]) \div 2

\* C21 amended: the left offset is (printableWidth - width) div 2 where width
\* is the width the image is drawn with after it was scaled to fit the
\* printable area, enlarged as well as reduced; the free width left and right
\* of the image differs by at most one.  An image of 512x800 on a printable
\* area of 608x800 is drawn 512 wide at offset 48; an image of 512x100 on
\* 608x1000 is enlarged to 608 wide and drawn at offset 0.
C21_MarginFromDrawnWidth ==
    Drawn =>
        /\ rect[1] = (printable_area[1] - DrawnSize[1]) \div 2
        /\ rect[1] >= 0
        /\ (printable_area[1] - rect[3]) - rect[1] \in {0, 1}
        /\ image_size = <<512, 800>> /\ printable_area = <<608, 800>>
               => DrawnSize[1] = 512 /\ rect[1] = 48
        /\ image_size = <<512, 100>> /\ printable_area = <<608, 1000>>
               => DrawnSize[1] = 608 /\ rect[1] = 0

C21_Witness ==
    /\ Drawn
    /\ image_size = <<512, 800>>
    /\ printable_area = <<608, 800>>
    /\ rect[1] = 48

\* C23 as stated: a 1000x800 image with a printable width of 512 is drawn
\* 512x640, and every image wider than the printable width is drawn exactly
\* that wide.
C23_DownscaledTo512x640 ==
    Drawn =>
        /\ image_size = <<1000, 800>> /\ printable_area[1] = 512
               => DrawnSize = <<512, 640>>
        /\ image_size[1] > printable_area[1]
               => DrawnSize[1] = printable_area[1]

WidthLimited == printable_area[1] * image_size[2] <= printable_area[2] * image_size[1]

\* C23 amended: a 1000x800 image on a printable area 512 wide and 1000 high
\* is drawn 512x409, the aspect ratio kept and the height cut to an integer.
\* The drawn image never exceeds the printable area; when the width is the
\* limiting dimension the drawn width is the printable width or, where the
\* floating-point product falls just below it, one less (an image 561 wide
\* is drawn 511 wide on a width of 512), and the height is the exact
\* proportional height cut to an integer, or one less; when the height is
\* the limiting dimension the drawn width is below the printable width.
C23_ScaledToFit ==
    Drawn =>
        /\ image_size = <<1000, 800>> /\ printable_area = <<512, 1000>>
               => DrawnSize = <<512, 409>>
        /\ image_size = <<561, 64>> /\ printable_area = <<512, 1000>>
               => DrawnSize[1] = 511
        /\ DrawnSize[1] <= printable_area[1]
        /\ DrawnSize[2] <= printable_area[2]
        /\ WidthLimited =>
               /\ printable_area[1] - DrawnSize[1] \in {0, 1}
               /\ (image_size[2] * printable_area[1]) \div image_size[1]
                      - DrawnSize[2] \in {0, 1}
        /\ ~WidthLimited => DrawnSize[1] < printable_area[1]

C23_Witness ==
    /\ Drawn
    /\ image_size = <<1000, 800>>
    /\ printable_area = <<512, 1000>>
    /\ DrawnSize = <<512, 409>>


\* ------------------------------------------------------ dispatcher claims
\* the job the loop is working on, while pc is between "mark" and "requeue"
Current == pending_jobs[idx]

\* C24: a failed attempt is caught by the loop and recorded on its job: from
\* the marking to the handler nothing changes retry_count, the handler adds
\* exactly one, and the write-back sets a non-empty error detail and the
\* status PENDING when the incremented retry_count is below the job's
\* max_retries, FAILED otherwise.
C24_FailedAttemptRecorded ==
    [][LET i == IndexOf(jobs, Current)
       IN  /\ pc = "print" /\ pc' = "except" => exc' \in Errors
           /\ pc \in {"print", "except", "requeue"} /\ pc' \in {"print", "except", "requeue"}
                 => jobs'[i].retry_count =
                        jobs[i].retry_count + (IF pc = "except" /\ pc' = "requeue" THEN 1 ELSE 0)
           /\ pc = "except" => pc' \in {"except", "requeue"}
           /\ pc = "requeue" => pc' \in {"requeue", "for"}
           /\ pc = "requeue" /\ pc' = "for" =>
                 /\ jobs'[i].retry_count = jobs[i].retry_count
                 /\ jobs'[i].retry_count = hist[Current].failed
                 /\ jobs'[i].error_message # None
                 /\ jobs'[i].error_message[Len(jobs'[i].error_message)] = exc
                 /\ jobs'[i].status =
                        IF jobs[i].retry_count < jobs[i].max_retries
                        THEN "PENDING" ELSE "FAILED"
                 /\ file'.jobs[i].status = StatusValue(jobs'[i].status)
                 /\ file'.jobs[i].retry_count = jobs'[i].retry_count]_vars

C24_Witness ==
    \E i \in 1..Len(jobs) :
        /\ pc = "for"
        /\ jobs[i].status = "PENDING"
        /\ jobs[i].retry_count = 1
        /\ jobs[i].error_message = RetryMessage(1, jobs[i].max_retries, "ValueError")
        /\ hist[jobs[i].job_id].failed = 1

\* the attempts of job j that were started have all been concluded and
\* written back
Concluded(j) ==
    /\ hist[j].started > 0
    /\ hist[j].started = hist[j].succeeded + hist[j].failed
    /\ Job(j).status # "PROCESSING"
    /\ Job(j).retry_count = hist[j].failed
    /\ Job(j).status = "COMPLETED" \/ Job(j).error_message # None \/ j \in cancelled

\* C25: the snapshot of a cycle is in insertion order and is worked through
\* in that order: when a job of the snapshot is marked PROCESSING, the
\* attempt of every job before it in the snapshot has been concluded and
\* written back, and no job after it has been marked in this cycle.
C25_SnapshotInInsertionOrder ==
    [][/\ \A k, l \in 1..Len(pending_jobs') :
              k < l => IndexOf(jobs', pending_jobs'[k]) < IndexOf(jobs', pending_jobs'[l])
       /\ pc = "mark" /\ pc' = "print" =>
              /\ \A k \in 1..(idx - 1) : Concluded(pending_jobs[k])
              /\ \A k \in (idx + 1)..Len(pending_jobs) :
                     Job(pending_jobs[k]).status \in {"PENDING", "CANCELLED"}]_vars

C25_Witness ==
    /\ pc = "print"
    /\ Len(pending_jobs) = 2
    /\ idx = 2
    /\ Concluded(pending_jobs[1])
    /\ Job(pending_jobs[2]).status = "PROCESSING"


\* ------------------------------------------------------------ lock claims
\* C26: while the loop thread is inside a send (print_file) it does not hold
\* the lock: the lock is free or with the client, so a client that calls
\* add_job, get_job, get_all_jobs or cancel_job can enter the with block and
\* complete the call without a step of the loop, however long the send takes.
C26_LockFreeDuringSend ==
    pc = "print" =>
        /\ lock \in {Free, "client"}
        /\ lock = Free => ENABLED Acquire("client")
        /\ lock = "client" =>
               /\ ENABLED GetAllJobs
               /\ \A job_id \in JobIds :
                      ENABLED GetJobCall(job_id) /\ ENABLED CancelJob(job_id)
               /\ Len(jobs) < MaxJobs =>
                      \A r \in {q \in Requests : q.copies = 1} :
                          ENABLED AddJob(NewUuid(jobs), r)

C26_Witness ==
    /\ pc = "print"
    /\ lock = "client"
    /\ Job(Current).status = "PROCESSING"

\* C27: whenever a step changes status, updated timestamp, error detail or
\* retry_count of a job (or adds a job), the thread that takes the step holds
\* the lock.  The steps of the loop thread are those that move pc.
C27_ModifiedUnderLock ==
    [][jobs' # jobs => lock = (IF pc' # pc THEN "loop" ELSE "client")]_vars


\* ---------------------------------------------------- start / stop claims
\* C28: at most one thread is inside _process_queue at any time, whatever
\* the sequence of start_processing and stop_processing calls: never are two
\* loop threads alive, and never are two of them working on jobs.
C28_AtMostOneLoop ==
    ~(Live(pc) /\ other # NoThread /\ Live(other.pc))


\* C29 as stated: once is_running has been cleared no job is marked
\* PROCESSING any more.
C29_NoMarkAfterSignal ==
    [][~is_running => ~(pc = "mark" /\ pc' = "print")]_vars

\* every attempt that was started has been concluded and written back
AllWrittenBack ==
    \A i \in 1..Len(jobs) :
        /\ jobs[i].status # "PROCESSING"
        /\ hist[jobs[i].job_id].started
               = hist[jobs[i].job_id].succeeded + hist[jobs[i].job_id].failed

\* C29 amended: after is_running has been cleared the loop finishes the
\* attempt of the job it is working on (every copy, then the write-back),
\* no job passes the check of the for loop any more, so that the only job
\* marked PROCESSING after the signal is one that had passed the check
\* before it, and, every send returning, the thread leaves _process_queue
\* with every attempt written back.
C29_StopFinishesCurrentJob ==
    /\ [][~is_running =>
             /\ pc = "for" => pc' \in {"for", "sleep"}
             /\ pc = "mark" => pc' \in {"mark", "print"}
             /\ pc = "print" /\ pc' = "completed" => copy_i = Job(Current).copies
             /\ pc = "print" => pc' \in {"print", "completed", "except"}
             /\ pc = "completed" /\ pc' # pc =>
                    pc' = "for" /\ GetJob(jobs', Current).status = "COMPLETED"
             /\ pc = "requeue" /\ pc' # pc =>
                    pc' = "for" /\ GetJob(jobs', Current).status \in {"PENDING", "FAILED"}
             /\ pc = "sleep" => pc' \in {"sleep", "while"}
             /\ pc = "while" => pc' \in {"while", "exited"}
             /\ pc' = "exited" => AllWrittenBack']_vars
    /\ (Serving /\ ~is_running) ~> (pc = "exited")

C29_Witness ==
    /\ ~is_running
    /\ pc = "print"
    /\ copy_i = 1
    /\ Job(Current).copies = 2
    /\ Job(Current).status = "PROCESSING"


\* C30: a call of stop_processing returns: the caller leaves join when the
\* thread has exited or after JoinTimeout seconds at the latest, also when
\* the loop thread stays inside a send for ever.
C30_StopProcessingReturns ==
    /\ [](joining => waited <= JoinTimeout)
    /\ joining ~> ~joining

C30_Witness ==
    /\ joining
    /\ waited = JoinTimeout
    /\ pc = "print"
    /\ ~is_running


\* ------------------------------------------------------ robustness claims
\* C31: no failure ends the loop while is_running is set.  The thread leaves
\* _process_queue only from the while condition with is_running cleared; a
\* failed attempt is followed by the next job of the same snapshot; an
\* exception of the scan leads to the back-off and from there to the while
\* condition, and the loop gets to a further scan unless it is stopped.
C31_LoopSurvivesFailures ==
    /\ [][/\ pc' = "exited" /\ pc # "exited" => pc = "while" /\ ~is_running
          /\ pc = "requeue" /\ pc' # pc =>
                 /\ pc' = "for"
                 /\ idx' = idx + 1
                 /\ pending_jobs' = pending_jobs
          /\ pc = "for" /\ pc' # pc /\ is_running /\ idx <= Len(pending_jobs) =>
                 pc' = "mark" /\ idx' = idx /\ pending_jobs' = pending_jobs
          /\ pc = "fetch" /\ pc' # pc => pc' \in {"for", "backoff"}
          /\ pc = "backoff" /\ pc' # pc => pc' = "while"]_vars
    /\ (pc = "backoff") ~> (pc = "fetch" \/ ~is_running)
    /\ (pc = "requeue" /\ idx < Len(pending_jobs)) ~> (pc = "mark" \/ ~is_running)

C31_Witness ==
    /\ pc = "mark"
    /\ idx = 2
    /\ is_running
    /\ hist[pending_jobs[1]].failed = 1
    /\ Job(pending_jobs[1]).error_message # None


\* a job of the table other than the one being sent that is waiting for
\* its first attempt
WaitingBehindSend(j) ==
    /\ pc = "print"
    /\ j \in Ids(jobs)
    /\ j # Current
    /\ Job(j).status = "PENDING"

\* C32: while a send hangs every other PENDING job is still marked
\* PROCESSING and attempted (or the send has returned after all).
C32_OthersStillProcessed ==
    \A j \in JobIds :
        WaitingBehindSend(j)
            ~> (pc # "print" \/ (j \in Ids(jobs) /\ Job(j).status = "PROCESSING"))

\* C32 amended: a send that does not return stalls the loop thread that made
\* it: while the thread is inside the send the job of the send is the only
\* one PROCESSING, no attempt of any job is started, and every other PENDING
\* job stays PENDING.
C32_HungSendStallsLoop ==
    /\ [](pc = "print" =>
             \A i \in 1..Len(jobs) :
                 jobs[i].status = "PROCESSING" <=> jobs[i].job_id = Current)
    /\ [][pc = "print" /\ pc' = "print" =>
             /\ \A j \in JobIds : hist'[j].started = hist[j].started
             /\ Current' = Current
             /\ \A j \in JobIds :
                    WaitingBehindSend(j) => WaitingBehindSend(j)']_vars

C32_Witness ==
    /\ pc = "print"
    /\ joining
    /\ waited = JoinTimeout
    /\ \E j \in JobIds : WaitingBehindSend(j) /\ hist[j].started = 0


\* the job is in the table with one of the given statuses
HasStatus(j, statuses) == j \in Ids(jobs) /\ Job(j).status \in statuses

\* C33: with the loop thread scheduled fairly, the loop started again after
\* every restart and every send returning or raising, every job that is
\* PENDING or PROCESSING eventually is COMPLETED, FAILED or CANCELLED.
C33_EveryJobConcludes ==
    \A j \in JobIds :
        HasStatus(j, {"PENDING", "PROCESSING"})
            ~> HasStatus(j, {"COMPLETED", "FAILED", "CANCELLED"})

C33_Witness ==
    \E j \in JobIds :
        /\ HasStatus(j, {"FAILED"})
        /\ hist[j].started >= 2
        /\ crashes = 1


\* a store constructed with more retries than PrintJob.__init__ assumes
MaxRetriesAboveDefault == DefaultMaxRetries + 1

InitManyRetries ==
    /\ disk = Reliable
    /\ other = NoThread
    /\ tid = 1
    /\ processing_thread = 0
    /\ joining = FALSE
    /\ waited = 0
    /\ file = NoFile
    /\ max_retries = MaxRetriesAboveDefault
    /\ clock = 0
    /\ jobs = LoadQueue(file, clock)
    /\ is_running = FALSE
    /\ pc = "none"
    /\ pending_jobs = <<>>
    /\ idx = 1
    /\ copy_i = 0
    /\ exc = NoException
    /\ crashes = 0
    /\ ret = NoRet
    /\ cancelled = {}
    /\ hist = [j \in JobIds |-> NoHist]
    /\ lock = LockElided
    /\ sends = NotCounted
    /\ image_size = NoSize
    /\ printable_area = NoSize
    /\ rect = NoRect

NextManyRetries ==
    \/ \E job_id \in JobIds, r \in {q \in Requests : q.copies = 1} : AddJob(job_id, r)
    \/ StartProcessing
    \/ Dispatch
    \/ Restart

SpecManyRetries == InitManyRetries /\ [][NextManyRetries]_vars

\* C34: in every state, also after the table has been saved and loaded
\* again, every job has 0 <= retry_count <= max_retries of that job.
C34_RetryCountWithinMaxRetries ==
    \A i \in 1..Len(jobs) :
        /\ 0 <= jobs[i].retry_count
        /\ jobs[i].retry_count <= jobs[i].max_retries


\* C35: in every state every FAILED job has an error message and a
\* retry_count that is at least its max_retries.
C35_FailedJobsExhausted ==
    \A i \in 1..Len(jobs) :
        jobs[i].status = "FAILED" =>
            /\ jobs[i].error_message # None
            /\ jobs[i].retry_count >= jobs[i].max_retries


\* ------------------------------------------------------- counted sends

InitSends ==
    /\ QueueInit
    /\ lock = LockElided
    /\ sends = [j \in JobIds |-> <<>>]
    /\ image_size = NoSize
    /\ printable_area = NoSize
    /\ rect = NoRect

\* one run of the store with its loop thread
NextSends ==
    \/ \E job_id \in JobIds, r \in Requests : AddJob(job_id, r)
    \/ \E job_id \in JobIds : CancelJob(job_id)
    \/ StartProcessing
    \/ Dispatch

SpecSends == InitSends /\ [][NextSends]_vars

RECURSIVE SumOf(_)
SumOf(counts) == IF counts = <<>> THEN 0 ELSE Head(counts) + SumOf(Tail(counts))

\* every attempt starts at the first copy and does not remember the copies
\* of earlier attempts: an attempt that has ended sent all copies when it
\* succeeded and fewer when it failed, and the attempt under way has sent
\* the copies counted from zero
AttemptsStartAtFirstCopy ==
    /\ pc = "print" => copy_i = sends[Current][Len(sends[Current])]
    /\ \A j \in Ids(jobs) :
           /\ Len(sends[j]) = hist[j].started
           /\ \A a \in 1..Len(sends[j]) : sends[j][a] <= Job(j).copies
           /\ hist[j].succeeded
                  = Cardinality({a \in 1..Len(sends[j]) :
                                    /\ sends[j][a] = Job(j).copies
                                    /\ a = Len(sends[j]) =>
                                           ~(pc = "print" /\ Current = j)})
           /\ hist[j].started = 2 /\ hist[j].failed = 1 /\ hist[j].succeeded = 1 =>
                  \E k \in 1..Job(j).copies :
                      /\ sends[j] = <<k - 1, Job(j).copies>>
                      /\ SumOf(sends[j]) = (k - 1) + Job(j).copies

\* C36: every attempt restarts at the first copy, and the sends of a job
\* that returned never exceed max_retries * copies.
C36_SendsWithinRetriesTimesCopies ==
    /\ AttemptsStartAtFirstCopy
    /\ \A j \in Ids(jobs) : SumOf(sends[j]) <= Job(j).max_retries * Job(j).copies

\* C36 amended: the bound holds for jobs with max_retries >= 1; a job with
\* max_retries = 0 is attempted once and its sends never exceed copies.
C36_SendsWithinAttemptsTimesCopies ==
    /\ AttemptsStartAtFirstCopy
    /\ \A j \in Ids(jobs) :
           /\ Job(j).max_retries >= 1 =>
                  SumOf(sends[j]) <= Job(j).max_retries * Job(j).copies
           /\ Job(j).max_retries = 0 => SumOf(sends[j]) <= Job(j).copies

C36_Witness ==
    \E j \in Ids(jobs) :
        /\ Job(j).status = "COMPLETED"
        /\ Job(j).copies = 2
        /\ sends[j] = <<1, 2>>


\* --------------------------------------------- writes of the file may fail

InitFaultyDisk ==
    /\ disk = Faulty
    /\ other = NoThread
    /\ tid = 1
    /\ processing_thread = 0
    /\ joining = FALSE
    /\ waited = 0
    /\ file = NoFile
    /\ max_retries \in 0..MaxRetriesArg
    /\ clock = 0
    /\ jobs = LoadQueue(file, clock)
    /\ is_running = FALSE
    /\ pc = "none"
    /\ pending_jobs = <<>>
    /\ idx = 1
    /\ copy_i = 0
    /\ exc = NoException
    /\ crashes = 0
    /\ ret = NoRet
    /\ cancelled = {}
    /\ hist = [j \in JobIds |-> NoHist]
    /\ lock = LockElided
    /\ sends = NotCounted
    /\ image_size = NoSize
    /\ printable_area = NoSize
    /\ rect = NoRect

\* the three mutating calls of the store, made by a client of the served
\* queue
NextMutations ==
    \/ \E job_id \in JobIds, r \in {q \in Requests : q.copies = 1} : AddJob(job_id, r)
    \/ \E job_id \in JobIds : CancelJob(job_id)
    \/ \E job_id \in JobIds, status \in {"PROCESSING", "COMPLETED"} :
          UpdateJobStatus(job_id, status, None)
    \/ StartProcessing

SpecFaultyDisk == InitFaultyDisk /\ [][NextMutations]_vars

\* a call of add_job, update_job_status or cancel_job that changed the table
\* has returned
MutatingCallReturned == jobs' # jobs

\* C37: when the write of the file fails inside add_job, update_job_status
\* or cancel_job the call returns its normal result, the change of the
\* table is kept in memory, and the file keeps its previous content until
\* the next write that succeeds, which writes the whole current table.
C37_FailedWriteKeepsFile ==
    [][MutatingCallReturned =>
           /\ file' # SavedQueue(jobs') => file' = file
           /\ ret' # NoRet /\ ret'[1] = "add_job" => ret'[3] \in Ids(jobs') \ Ids(jobs)
           /\ ret' # NoRet /\ ret'[1] = "cancel_job" =>
                  ret'[3] = TRUE /\ GetJob(jobs', ret'[2]).status = "CANCELLED"]_vars


\* ------------------------------------- construction on a file found on disk

\* a record as to_dict writes it, for a job of the given id and status
StoredRecord(job_id, status) ==
    ToDict([PrintJob(job_id, "a.pdf", "pdf", "P1", "None", 1, 0)
                EXCEPT !.status = status, !.max_retries = DefaultMaxRetries])

\* a record whose 'status' is no value of JobStatus: from_dict raises on it
UnreadableRecord(job_id) ==
    [StoredRecord(job_id, "PENDING") EXCEPT !.status = "printing"]

RecordsOf(job_id) ==
    {StoredRecord(job_id, st) : st \in {"PENDING", "PROCESSING", "COMPLETED"}}
        \cup {UnreadableRecord(job_id)}

\* the files the constructor may find: none, one json.load cannot parse, and
\* parsable ones with up to MaxJobs records, readable or not
StoredFiles ==
    {NoFile, Truncated}
        \cup {[exists |-> TRUE, parsable |-> TRUE, jobs |-> recs] :
                 recs \in UNION {{r \in [1..n -> UNION {RecordsOf(j) : j \in JobIds}] :
                                     \A i \in 1..n : r[i] \in RecordsOf(i)} :
                                 n \in 0..MaxJobs}}

InitStoredFile ==
    /\ disk = Reliable
    /\ other = NoThread
    /\ tid = 1
    /\ processing_thread = 0
    /\ joining = FALSE
    /\ waited = 0
    /\ file \in StoredFiles
    /\ max_retries = DefaultMaxRetries
    /\ clock = 0
    /\ jobs = LoadQueue(file, clock)
    /\ is_running = FALSE
    /\ pc = "none"
    /\ pending_jobs = <<>>
    /\ idx = 1
    /\ copy_i = 0
    /\ exc = NoException
    /\ crashes = 0
    /\ ret = NoRet
    /\ cancelled = {}
    /\ hist = [j \in JobIds |->
                 IF j \in ResetOnLoad(file) THEN [NoHist EXCEPT !.origin = "reset"]
                 ELSE IF j \in Ids(jobs) THEN [NoHist EXCEPT !.origin = "load"]
                 ELSE IF j \in Ids(file.jobs) THEN [NoHist EXCEPT !.origin = "lost"]
                 ELSE NoHist]
    /\ lock = LockElided
    /\ sends = NotCounted
    /\ image_size = NoSize
    /\ printable_area = NoSize
    /\ rect = NoRect

SpecStoredFile == InitStoredFile /\ [][NextMutations]_vars

\* the table holds the jobs of the records before the first one that
\* cannot be read, and none when the file is missing or cannot be parsed
LoadedUpToFailure ==
    /\ ~(file.exists /\ file.parsable) => jobs = <<>>
    /\ file.exists /\ file.parsable =>
           /\ Len(jobs) <= Len(file.jobs)
           /\ \A i \in 1..Len(jobs) :
                  /\ Readable(file.jobs[i])
                  /\ jobs[i].job_id = file.jobs[i].job_id
                  /\ StatusValue(jobs[i].status)
                         = IF file.jobs[i].status = "processing" THEN "pending"
                           ELSE file.jobs[i].status
           /\ Len(jobs) < Len(file.jobs) => ~Readable(file.jobs[Len(jobs) + 1])

\* C38: whatever file the constructor finds, the store is constructed; its
\* table holds the jobs loaded before the failure (none when the file
\* cannot be parsed), and the next call that changes the table overwrites
\* the file with the table in memory.
C38_LoadFailureTolerated ==
    /\ [](pc = "none" => LoadedUpToFailure)
    /\ [][jobs' # jobs => file' = SavedQueue(jobs')]_vars

C38_Witness ==
    /\ \E j \in JobIds : hist[j].origin = "lost" /\ j \notin Ids(jobs)
    /\ \E j \in Ids(jobs) : hist[j].origin = "load" /\ Job(j).status = "CANCELLED"
    /\ file = SavedQueue(jobs)


\* ------------------------------------------------ to_dict then from_dict

\* the jobs a store can hold: made by the constructor from a request, then
\* changed in status, updated_at, error_message, retry_count and max_retries
SampleJobs ==
    { [PrintJob(job_id, r.file_path, r.file_format, r.printer_name,
                r.options, r.copies, 0)
          EXCEPT !.status = st, !.updated_at = u, !.error_message = e,
                 !.retry_count = rc, !.max_retries = mx] :
        job_id \in {1}, r \in Requests, st \in JobStatus, u \in 0..MaxClock,
        e \in {None, RetryMessage(1, DefaultMaxRetries, "ValueError")},
        rc \in 0..MaxRetriesArg, mx \in {0, DefaultMaxRetries} }

InitRecord ==
    /\ disk = Reliable
    /\ other = NoThread
    /\ tid = 1
    /\ processing_thread = 0
    /\ joining = FALSE
    /\ waited = 0
    /\ file = NoFile
    /\ max_retries = DefaultMaxRetries
    /\ clock = 0
    /\ jobs \in {<<job>> : job \in SampleJobs}
    /\ is_running = FALSE
    /\ pc = "none"
    /\ pending_jobs = <<>>
    /\ idx = 1
    /\ copy_i = 0
    /\ exc = NoException
    /\ crashes = 0
    /\ ret = NoRet
    /\ cancelled = {}
    /\ hist = [j \in JobIds |-> NoHist]
    /\ lock = LockElided
    /\ sends = NotCounted
    /\ image_size = NoSize
    /\ printable_area = NoSize
    /\ rect = NoRect

\* job.to_dict() for the job of the table
ToDictCall ==
    /\ ret = NoRet
    /\ ret' = <<"to_dict", ToDict(jobs[1])>>
    /\ UNCHANGED <<jobs, file, max_retries, printer_vars, env_vars, thread_vars, is_running,
                   dispatcher_vars, clock, crashes, cancelled, hist, lock>>

\* PrintJob.from_dict(data) for the record written, at some later time
FromDictCall ==
    /\ ret # NoRet
    /\ ret[1] = "to_dict"
    /\ \E now \in 0..MaxClock : ret' = <<"from_dict", FromDict(ret[2], now)>>
    /\ UNCHANGED <<jobs, file, max_retries, printer_vars, env_vars, thread_vars, is_running,
                   dispatcher_vars, clock, crashes, cancelled, hist, lock>>

NextRecord == ToDictCall \/ FromDictCall

SpecRecord == InitRecord /\ [][NextRecord]_vars

\* C39: to_dict followed by from_dict gives a job with the same job_id,
\* file_path, file_format, printer_name, options, copies, status,
\* created_at, updated_at, error_message and retry_count, for a job in any
\* status.
C39_RecordRoundTrip ==
    (ret # NoRet /\ ret[1] = "from_dict") =>
        /\ ret[2].job_id = jobs[1].job_id
        /\ ret[2].file_path = jobs[1].file_path
        /\ ret[2].file_format = jobs[1].file_format
        /\ ret[2].printer_name = jobs[1].printer_name
        /\ ret[2].options = jobs[1].options
        /\ ret[2].copies = jobs[1].copies
        /\ ret[2].status = jobs[1].status
        /\ ret[2].created_at = jobs[1].created_at
        /\ ret[2].updated_at = jobs[1].updated_at
        /\ ret[2].error_message = jobs[1].error_message
        /\ ret[2].retry_count = jobs[1].retry_count

C39_Witness ==
    /\ ret # NoRet
    /\ ret[1] = "from_dict"
    /\ jobs[1].status = "FAILED"
    /\ jobs[1].retry_count = MaxRetriesArg
    /\ jobs[1].error_message # None
    /\ jobs[1].updated_at = MaxClock
    /\ jobs[1].options # "{}"

====
